---- MODULE Spec2Model ----
(***************************************************************************)
(* Model of pythongraphrunner/TaskGraph.py: a TaskGraph owns a set of      *)
(* declared states, a directed graph whose nodes are states and task       *)
(* edges, a registry of items and a set of discrepant item ids; fixItems() *)
(* walks every discrepant item along a shortest path of the graph.         *)
(***************************************************************************)
EXTENDS Integers, Sequences, FiniteSets, TLC

\* ------------------------------------------------------------------ bounds
MaxItems == 2          \* number of item ids the callers use
MaxVal == 1            \* cap on the payload counters (Number.val), summed over the items
MaxList == 2           \* longest list handed to addStates / addEdges

\* ------------------------------------------------------------- input sets
\* the state names of the adder test (test.py:12)
StateNames == {"empty", "add", "print", "done"}

ItemNames == <<"i1", "i2", "i3", "i4">>
ItemIds == {ItemNames[n] : n \in 1..MaxItems}

NoItem == "-"
NoExc == "none"

\* A TaskEdge as constructed by TaskEdge.__init__: the three state lists, the
\* id, and the runner.  The runner is an opaque callable; it is modelled by
\* the set of values it may return (rets) and by its payload effect
\* (incr: the runner executes x.val += 1).
TaskEdge(id, startStates, endStates, errorEndStates, rets, incr) ==
  [id |-> id, startStates |-> startStates, endStates |-> endStates,
   errorEndStates |-> errorEndStates, rets |-> rets, incr |-> incr]

\* test.py:15-31, the three edges of the adder test
emptyEdge == TaskEdge("emptyEdge", <<"empty">>, <<"add">>, <<>>, {"add"}, FALSE)
addEdgeT == TaskEdge("addEdge", <<"add">>, <<"print">>, <<>>, {"print"}, TRUE)
printEdge == TaskEdge("printEdge", <<"print">>, <<"done">>, <<>>, {"done"}, FALSE)
\* an edge with two declared end states and an error end state, whose runner
\* decides at run time what to return (any state name or another string)
scanEdge == TaskEdge("scanEdge", <<"empty">>, <<"add", "print">>, <<"done">>,
                     StateNames \cup {"bogus"}, FALSE)
\* an edge with two start states
resetEdge == TaskEdge("resetEdge", <<"print", "done">>, <<"empty">>, <<>>, {"empty"}, FALSE)

\* what a runner can return: a state name or any other string
Outs == StateNames \cup {"bogus"}

EdgeCatalogue == {emptyEdge, addEdgeT, printEdge, scanEdge, resetEdge}
EdgeIds == {e.id : e \in EdgeCatalogue}

\* --------------------------------------------------------------- helpers
Range(s) == {s[n] : n \in 1..Len(s)}

\* Python list indexing, negative indices counting from the end
PyIndex(lst, n) == IF n >= 0 THEN lst[n + 1] ELSE lst[Len(lst) + n + 1]

\* sequences over S of length 0..n
SeqUpTo(S, n) == UNION {[1..m -> S] : m \in 0..n}

\* all orderings of a finite set, as sequences without repetition
Perms(S) == {p \in [1..Cardinality(S) -> S] : \A a, b \in 1..Cardinality(S) : p[a] = p[b] => a = b}

\* sequence s without the element x
Without(s, x) == SelectSeq(s, LAMBDA y : y # x)

VARIABLES
  states,            \* TaskGraph._states
  graphNodes,        \* nodes of TaskGraph._graph (states and edge ids)
  graphLinks,        \* directed links of TaskGraph._graph, pairs <<u, v>>
  edgeObj,           \* node attribute edgeObj: edge id -> TaskEdge
  items,             \* TaskGraph._items: id -> [currState, desiredState, val]
  discrepantItems,   \* TaskGraph._discrepantItems, in its iteration order
  pc,                \* "idle", "for", "while" (inside fixItems), "done"
  iter,              \* ids the running set iterator has still to yield
  siUsed,            \* size of the set when the iterator was created
  itemID, startState, endState, path, idx,   \* locals of fixItems
  err,               \* exception raised by the last call, NoExc if none
  calls,             \* handler invocations of the current pass: <<item, edge>>
  visited,           \* ids whose loop body the current pass has entered
  items0,            \* items at the start of the current pass
  disc0,             \* discrepant ids at the start of the current pass
  failed,            \* validation failure of the current pass, or <<>>
  retry,             \* validation failure of the directly preceding pass
  op                 \* the method of TaskGraph called last

graphVars == <<states, graphNodes, graphLinks, edgeObj>>
regVars == <<items, discrepantItems>>
passVars == <<iter, siUsed, itemID, startState, endState, path, idx>>
histVars == <<calls, visited, items0, disc0, failed, retry>>
vars == <<states, graphNodes, graphLinks, edgeObj, items, discrepantItems, pc,
          iter, siUsed, itemID, startState, endState, path, idx, err,
          calls, visited, items0, disc0, failed, retry, op>>

\* ----------------------------------------------------------------- graph
Graph(st, nd, lk, eo) == [states |-> st, nodes |-> nd, links |-> lk, edgeObj |-> eo]

EmptyGraph == Graph({}, {}, {}, <<>>)

CurGraph == Graph(states, graphNodes, graphLinks, edgeObj)

\* TaskGraph.addState
AddStateOp(G, stateName) ==
  [G EXCEPT !.states = @ \cup {stateName}, !.nodes = @ \cup {stateName}]

\* TaskGraph.addStates
RECURSIVE AddStatesOp(_, _)
AddStatesOp(G, stateNames) ==
  IF stateNames = <<>> THEN G
  ELSE AddStatesOp(AddStateOp(G, Head(stateNames)), Tail(stateNames))

\* the states an edge refers to (TaskGraph.addEdge, line 157)
ReferencedStates(taskEdge) ==
  Range(taskEdge.startStates) \cup Range(taskEdge.endStates) \cup Range(taskEdge.errorEndStates)

\* is the check of lines 157-159 passed
EdgeStatesValid(G, taskEdge) == ReferencedStates(taskEdge) \subseteq G.states

\* links to the error end states inserted as well
EdgeLinksWithError(taskEdge) ==
  {<<s, taskEdge.id>> : s \in Range(taskEdge.startStates)} \cup
  {<<taskEdge.id, s>> : s \in Range(taskEdge.endStates) \cup Range(taskEdge.errorEndStates)}

\* links inserted by lines 165-170; error end states get no link
EdgeLinks(taskEdge) ==
  {<<s, taskEdge.id>> : s \in Range(taskEdge.startStates)} \cup
  {<<taskEdge.id, s>> : s \in Range(taskEdge.endStates)}

\* addEdge inserting the edge node before it validates the states
AddEdgeOpNodeFirst(G, taskEdge) ==
  IF ~EdgeStatesValid(G, taskEdge)
  THEN [g |-> [G EXCEPT !.nodes = @ \cup {taskEdge.id}], err |-> "ValueError"]
  ELSE [g |-> [G EXCEPT !.nodes = @ \cup {taskEdge.id},
                        !.edgeObj = [n \in DOMAIN @ \cup {taskEdge.id} |->
                                       IF n = taskEdge.id THEN taskEdge ELSE @[n]],
                        !.links = @ \cup EdgeLinks(taskEdge)],
        err |-> NoExc]

\* TaskGraph.addEdge: result [g, err]
AddEdgeOp(G, taskEdge) ==
  IF ~EdgeStatesValid(G, taskEdge)
  THEN [g |-> G, err |-> "ValueError"]
  ELSE [g |-> [G EXCEPT !.nodes = @ \cup {taskEdge.id},
                        !.edgeObj = [n \in DOMAIN @ \cup {taskEdge.id} |->
                                       IF n = taskEdge.id THEN taskEdge ELSE @[n]],
                        !.links = @ \cup EdgeLinks(taskEdge)],
        err |-> NoExc]

\* TaskGraph.addEdges: stops at the first edge that raises
RECURSIVE AddEdgesOp(_, _)
AddEdgesOp(G, taskEdges) ==
  IF taskEdges = <<>> THEN [g |-> G, err |-> NoExc]
  ELSE LET r == AddEdgeOp(G, Head(taskEdges))
       IN IF r.err # NoExc THEN r ELSE AddEdgesOp(r.g, Tail(taskEdges))


\* --------------------------------------------------------- shortest path
Successors(G, n) == {l[2] : l \in {k \in G.links : k[1] = n}}

\* breadth-first search: walks is the set of simple walks of the current
\* length from the source; the result is the set of those that end in target
RECURSIVE SearchLevel(_, _, _, _)
SearchLevel(G, walks, target, fuel) ==
  LET hits == {w \in walks : w[Len(w)] = target}
  IN IF hits # {} THEN hits
     ELSE IF fuel = 0 \/ walks = {} THEN {}
     ELSE SearchLevel(G,
            UNION {{Append(w, n) : n \in Successors(G, w[Len(w)]) \ Range(w)} : w \in walks},
            target, fuel - 1)

ShortestPaths(G, source, target) ==
  SearchLevel(G, {<<source>>}, target, Cardinality(G.nodes))

\* nx.shortest_path(graph, source, target): a node list, source first, or an
\* exception.  Among several shortest paths the library returns one that is
\* fixed by the graph; CHOOSE is that fixed choice.
ShortestPath(G, source, target) ==
  IF source \notin G.nodes \/ target \notin G.nodes
  THEN [exc |-> "NodeNotFound", path |-> <<>>]
  ELSE IF ShortestPaths(G, source, target) = {}
  THEN [exc |-> "NetworkXNoPath", path |-> <<>>]
  ELSE [exc |-> NoExc, path |-> CHOOSE p \in ShortestPaths(G, source, target) : TRUE]

\* -------------------------------------------------------------- registry
\* ItemBase.__init__ plus the payload of the test's Number (val = 0)
ItemBase(currState, desiredState) ==
  [currState |-> currState, desiredState |-> desiredState, val |-> 0]

\* ItemBase.isDiscrepant
isDiscrepant(item) == item.currState # item.desiredState

Registry(its, disc) == [items |-> its, disc |-> disc]

CurRegistry == Registry(items, discrepantItems)

EmptyFcn == [x \in {} |-> x]

\* set.add on the discrepant set: the iteration order of the grown set is
\* whatever the hash table gives, so the results are all its orderings
SetAdd(disc, id) ==
  IF id \in Range(disc) THEN {disc} ELSE Perms(Range(disc) \cup {id})

\* set.remove: the other elements keep their places
SetRemove(disc, id) == Without(disc, id)

\* addItem storing the item without looking for its id in the registry
AddItemOpOverwrite(R, id, item) ==
  LET its == [k \in DOMAIN R.items \cup {id} |-> IF k = id THEN item ELSE R.items[k]]
  IN IF isDiscrepant(item)
     THEN {[r |-> Registry(its, d), err |-> NoExc] : d \in SetAdd(R.disc, id)}
     ELSE {[r |-> Registry(its, R.disc), err |-> NoExc]}

\* TaskGraph.addItem: the set of possible results [r, err]
AddItemOp(R, id, item) ==
  IF id \in DOMAIN R.items
  THEN {[r |-> R, err |-> "ValueError"]}
  ELSE LET its == [k \in DOMAIN R.items \cup {id} |-> IF k = id THEN item ELSE R.items[k]]
       IN IF isDiscrepant(item)
          THEN {[r |-> Registry(its, d), err |-> NoExc] : d \in SetAdd(R.disc, id)}
          ELSE {[r |-> Registry(its, R.disc), err |-> NoExc]}

\* removeItem popping the item and leaving the discrepant set alone
RemoveItemOpKeepDisc(R, id) ==
  IF id \notin DOMAIN R.items
  THEN {[r |-> R, err |-> "ValueError"]}
  ELSE {[r |-> Registry([k \in DOMAIN R.items \ {id} |-> R.items[k]], R.disc), err |-> NoExc]}

\* TaskGraph.removeItem
RemoveItemOp(R, id) ==
  IF id \notin DOMAIN R.items
  THEN {[r |-> R, err |-> "ValueError"]}
  ELSE LET its == [k \in DOMAIN R.items \ {id} |-> R.items[k]]
       IN IF id \in Range(R.disc)
          THEN {[r |-> Registry(its, SetRemove(R.disc, id)), err |-> NoExc]}
          ELSE {[r |-> Registry(its, R.disc), err |-> NoExc]}

\* updateItemStates without the if branch of lines 236-237
UpdateItemStatesOpNoAdd(R, id, currState, desiredState) ==
  IF id \notin DOMAIN R.items
  THEN {[r |-> R, err |-> "ValueError"]}
  ELSE LET item == [R.items[id] EXCEPT !.currState = currState, !.desiredState = desiredState]
           its == [R.items EXCEPT ![id] = item]
       IN IF ~isDiscrepant(item) /\ id \in Range(R.disc)
          THEN {[r |-> Registry(its, SetRemove(R.disc, id)), err |-> NoExc]}
          ELSE {[r |-> Registry(its, R.disc), err |-> NoExc]}

\* TaskGraph.getItem: self._items[itemID], a dict lookup
GetItemOp(R, id) ==
  IF id \in DOMAIN R.items
  THEN [exc |-> NoExc, item |-> R.items[id]]
  ELSE [exc |-> "KeyError", item |-> NoItem]

\* updateItemStates without the elif branch of lines 238-239
UpdateItemStatesOpNoRemove(R, id, currState, desiredState) ==
  IF id \notin DOMAIN R.items
  THEN {[r |-> R, err |-> "ValueError"]}
  ELSE LET item == [R.items[id] EXCEPT !.currState = currState, !.desiredState = desiredState]
           its == [R.items EXCEPT ![id] = item]
       IN IF isDiscrepant(item) /\ id \notin Range(R.disc)
          THEN {[r |-> Registry(its, d), err |-> NoExc] : d \in SetAdd(R.disc, id)}
          ELSE {[r |-> Registry(its, R.disc), err |-> NoExc]}

\* TaskGraph.updateItemStates
UpdateItemStatesOp(R, id, currState, desiredState) ==
  IF id \notin DOMAIN R.items
  THEN {[r |-> R, err |-> "ValueError"]}
  ELSE LET item == [R.items[id] EXCEPT !.currState = currState, !.desiredState = desiredState]
           its == [R.items EXCEPT ![id] = item]
       IN IF isDiscrepant(item) /\ id \notin Range(R.disc)
          THEN {[r |-> Registry(its, d), err |-> NoExc] : d \in SetAdd(R.disc, id)}
          ELSE IF ~isDiscrepant(item) /\ id \in Range(R.disc)
          THEN {[r |-> Registry(its, SetRemove(R.disc, id)), err |-> NoExc]}
          ELSE {[r |-> Registry(its, R.disc), err |-> NoExc]}


\* ------------------------------------------------- state after construction
NoState == "-"
NoFail == [item |-> NoItem, edge |-> "-", curr |-> NoState]

ResetLocals ==
  /\ iter' = <<>> /\ siUsed' = 0 /\ itemID' = NoItem
  /\ startState' = NoState /\ endState' = NoState /\ path' = <<>> /\ idx' = 0

ResetHist ==
  /\ calls' = <<>> /\ visited' = <<>> /\ items0' = EmptyFcn /\ disc0' = {}
  /\ failed' = NoFail /\ retry' = NoFail

SetGraph(G) ==
  /\ states' = G.states /\ graphNodes' = G.nodes
  /\ graphLinks' = G.links /\ edgeObj' = G.edgeObj

SetRegistry(R) == items' = R.items /\ discrepantItems' = R.disc

\* TaskGraph.__init__ with the graph G already declared
InitWith(G) ==
  /\ states = G.states /\ graphNodes = G.nodes
  /\ graphLinks = G.links /\ edgeObj = G.edgeObj
  /\ items = EmptyFcn /\ discrepantItems = <<>>
  /\ pc = "idle" /\ err = NoExc
  /\ iter = <<>> /\ siUsed = 0 /\ itemID = NoItem
  /\ startState = NoState /\ endState = NoState /\ path = <<>> /\ idx = 0
  /\ calls = <<>> /\ visited = <<>> /\ items0 = EmptyFcn /\ disc0 = {}
  /\ failed = NoFail /\ retry = NoFail
  /\ op = "__init__"

\* no fixItems() call is running
Idle == pc \in {"idle", "done"}

\* ------------------------------------------------------- graph operations
addState(stateName) ==
  /\ Idle
  /\ op' = "addState"
  /\ SetGraph(AddStateOp(CurGraph, stateName))
  /\ pc' = "idle" /\ err' = NoExc
  /\ ResetLocals /\ ResetHist
  /\ UNCHANGED regVars

addStates(stateNames) ==
  /\ Idle
  /\ op' = "addStates"
  /\ SetGraph(AddStatesOp(CurGraph, stateNames))
  /\ pc' = "idle" /\ err' = NoExc
  /\ ResetLocals /\ ResetHist
  /\ UNCHANGED regVars

addEdge(taskEdge) ==
  /\ Idle
  /\ op' = "addEdge"
  /\ LET r == AddEdgeOp(CurGraph, taskEdge)
     IN SetGraph(r.g) /\ err' = r.err
  /\ pc' = "idle"
  /\ ResetLocals /\ ResetHist
  /\ UNCHANGED regVars

addEdges(taskEdges) ==
  /\ Idle
  /\ op' = "addEdges"
  /\ LET r == AddEdgesOp(CurGraph, taskEdges)
     IN SetGraph(r.g) /\ err' = r.err
  /\ pc' = "idle"
  /\ ResetLocals /\ ResetHist
  /\ UNCHANGED regVars

\* ---------------------------------------------------- registry operations
addItem(id, currState, desiredState) ==
  /\ Idle
  /\ op' = "addItem"
  /\ \E res \in AddItemOp(CurRegistry, id, ItemBase(currState, desiredState)) :
       SetRegistry(res.r) /\ err' = res.err
  /\ pc' = "idle"
  /\ ResetLocals /\ ResetHist
  /\ UNCHANGED graphVars

removeItem(id) ==
  /\ Idle
  /\ op' = "removeItem"
  /\ \E res \in RemoveItemOp(CurRegistry, id) :
       SetRegistry(res.r) /\ err' = res.err
  /\ pc' = "idle"
  /\ ResetLocals /\ ResetHist
  /\ UNCHANGED graphVars

updateItemStates(id, currState, desiredState) ==
  /\ Idle
  /\ op' = "updateItemStates"
  /\ \E res \in UpdateItemStatesOp(CurRegistry, id, currState, desiredState) :
       SetRegistry(res.r) /\ err' = res.err
  /\ pc' = "idle"
  /\ ResetLocals /\ ResetHist
  /\ UNCHANGED graphVars


\* -------------------------------------------------------------- fixItems
\* a set of valid outputs that holds whatever a runner returns
validOutputsAny(taskEdge) == Outs

\* TaskEdge._validOutputs (line 80)
validOutputs(taskEdge) == Range(taskEdge.endStates) \cup Range(taskEdge.errorEndStates)

\* the loop condition of line 271
WhileCond(p, n) == n < Len(p) - 1

\* the walk pointer advanced by one node instead of one hop
AdvanceByOne(n) == n + 1

\* line 280: the transition went as planned
Advance(n) == n + 2

\* the walk pointer put back on the first edge of the path
RewindToOne(n) == 1

\* line 284: idx -= idx + 1
Rewind(n) == n - (n + 1)

\* lines 254 and 287: the plan is computed from the locals startState and
\* endState, which are read once per item (lines 249-250)
Plan(G, start, target) == ShortestPath(G, start, target)

\* what a handler may do to the registry before it returns
NoCallback == [op |-> "none"]

ApplyCallback(R, cb) ==
  IF cb.op = "addItem" THEN AddItemOp(R, cb.id, ItemBase(cb.currState, cb.desiredState))
  ELSE IF cb.op = "removeItem" THEN RemoveItemOp(R, cb.id)
  ELSE IF cb.op = "updateItemStates"
  THEN UpdateItemStatesOp(R, cb.id, cb.currState, cb.desiredState)
  ELSE {[r |-> R, err |-> NoExc]}

\* sequence s with x put in before position n
InsertAt(s, n, x) == SubSeq(s, 1, n - 1) \o <<x>> \o SubSeq(s, n, Len(s))

\* the set iterator after the handler changed the set: a removed id is no
\* longer yielded; an inserted id lands in a free slot of the table, behind
\* the iterator's position (it is yielded later, before or after any of the
\* remaining ids) or in front of it (it is not yielded)
IterAfter(it, oldDisc, newDisc) ==
  LET kept == SelectSeq(it, LAMBDA x : x \in Range(newDisc))
      new == Range(newDisc) \ Range(oldDisc)
  IN IF new = {} THEN {kept}
     ELSE {kept} \cup {InsertAt(kept, n, x) : n \in 1..(Len(kept) + 1), x \in new}

\* the call returns (exc = NoExc) or raises exc
EndPass(exc) == pc' = "done" /\ err' = exc /\ ResetLocals

\* line 241: the call starts and line 246 creates the set iterator
fixItems ==
  /\ Idle
  /\ pc' = "for" /\ err' = NoExc
  /\ iter' = discrepantItems /\ siUsed' = Len(discrepantItems)
  /\ itemID' = NoItem /\ startState' = NoState /\ endState' = NoState
  /\ path' = <<>> /\ idx' = 0
  /\ calls' = <<>> /\ visited' = <<>>
  /\ items0' = items /\ disc0' = Range(discrepantItems)
  /\ retry' = (IF pc = "done" THEN failed ELSE NoFail)
  /\ failed' = NoFail
  /\ op' = "fixItems"
  /\ UNCHANGED <<graphVars, regVars>>

\* lines 246-271: the iterator yields the next id (or the loop ends, or the
\* iterator finds the set's size changed), the item's plan is computed and the
\* while loop is entered if the plan has a hop
ForNext ==
  /\ pc = "for"
  /\ UNCHANGED <<graphVars, regVars, calls, items0, disc0, failed, retry, op>>
  /\ IF siUsed # Len(discrepantItems)
     THEN EndPass("RuntimeError") /\ UNCHANGED visited
     ELSE IF iter = <<>>
     THEN EndPass(NoExc) /\ UNCHANGED visited
     ELSE IF Head(iter) \notin DOMAIN items
     THEN EndPass("KeyError") /\ UNCHANGED visited
     ELSE LET id == Head(iter)
              sp == Plan(CurGraph, items[id].currState, items[id].desiredState)
          IN /\ visited' = Append(visited, id)
             /\ IF sp.exc # NoExc
                THEN EndPass(sp.exc)
                ELSE /\ iter' = Tail(iter)
                     /\ UNCHANGED <<siUsed, err>>
                     /\ IF WhileCond(sp.path, 1)
                        THEN /\ pc' = "while"
                             /\ itemID' = id
                             /\ startState' = items[id].currState
                             /\ endState' = items[id].desiredState
                             /\ path' = sp.path
                             /\ idx' = 1
                        ELSE /\ pc' = "for"
                             /\ UNCHANGED <<itemID, startState, endState, path, idx>>

\* line 272: path[idx] is a node without an edgeObj attribute
LookupFails ==
  /\ pc = "while"
  /\ PyIndex(path, idx) \notin DOMAIN edgeObj
  /\ EndPass("KeyError")
  /\ UNCHANGED <<graphVars, regVars, histVars, op>>

\* the walk after a validated return value nextState (lines 277-287)
WalkAfter(G, p, n, start, target, nextState) ==
  IF nextState = PyIndex(p, n + 1)
  THEN [exc |-> NoExc, path |-> p, idx |-> Advance(n)]
  ELSE LET sp == Plan(G, start, target)
       IN [exc |-> sp.exc, path |-> sp.path, idx |-> Rewind(n)]

\* __call__ handing back whatever the runner returned
EdgeCallNoCheck(taskEdge, outState) == [exc |-> NoExc, out |-> outState]

\* TaskEdge.__call__ (lines 110-115) on the runner's return value outState:
\* the value handed back, or the exception
EdgeCall(taskEdge, outState) ==
  IF outState \notin validOutputs(taskEdge)
  THEN [exc |-> "ValueError", out |-> NoState]
  ELSE [exc |-> NoExc, out |-> outState]

\* the payload effect of the runner on the item
RunnerEffect(taskEdge, its, id) ==
  IF taskEdge.incr /\ id \in DOMAIN its
  THEN [its EXCEPT ![id].val = @ + 1]
  ELSE its

\* the write of line 275 reaching every registered item (the state kept in
\* one place shared by all items)
SetCurrStateAll(its, id, nextState) ==
  [k \in DOMAIN its |-> [its[k] EXCEPT !.currState = nextState]]

\* the write of line 275 setting the item's desiredState as well
SetCurrStateAndDesired(its, id, nextState) ==
  IF id \in DOMAIN its
  THEN [its EXCEPT ![id].currState = nextState, ![id].desiredState = nextState]
  ELSE its

\* line 275: item.currState = nextState
SetCurrState(its, id, nextState) ==
  IF id \in DOMAIN its THEN [its EXCEPT ![id].currState = nextState] ELSE its

\* currState written with the runner's value before the value is validated
AfterCallEager(its, id, taskEdge, outState) == SetCurrState(its, id, outState)

\* lines 272-275: the assignment of line 275 runs only if the call of line
\* 272 returned
AfterCall(its, id, taskEdge, outState) ==
  IF EdgeCall(taskEdge, outState).exc = NoExc
  THEN SetCurrState(its, id, EdgeCall(taskEdge, outState).out)
  ELSE its

\* the sum of the payload counters of the registered items
RECURSIVE SumVal(_, _)
SumVal(its, ids) ==
  IF ids = {} THEN 0
  ELSE LET k == CHOOSE x \in ids : TRUE
       IN its[k].val + SumVal(its, ids \ {k})

TotalVal(its) == SumVal(its, DOMAIN its)

\* lines 272-287, one turn of the while loop: the edge at path[idx] is called
\* on the item; its runner does the callback cb, has its payload effect and
\* returns outState
Invoke(outState, cb) ==
  /\ pc = "while"
  /\ PyIndex(path, idx) \in DOMAIN edgeObj
  /\ LET taskEdge == edgeObj[PyIndex(path, idx)]
     IN /\ outState \in taskEdge.rets
        /\ taskEdge.incr => TotalVal(items) < MaxVal
        /\ calls' = Append(calls, <<itemID, taskEdge.id>>)
        /\ \E res \in ApplyCallback(CurRegistry, cb) :
           \E it \in IterAfter(iter, discrepantItems, res.r.disc) :
             LET its1 == RunnerEffect(taskEdge, res.r.items, itemID)
                 call == EdgeCall(taskEdge, outState)
                 walk == WalkAfter(CurGraph, path, idx, startState, endState, call.out)
             IN /\ discrepantItems' = res.r.disc
                /\ IF res.err # NoExc
                   THEN /\ EndPass(res.err)
                        /\ items' = res.r.items
                        /\ UNCHANGED failed
                   ELSE IF call.exc # NoExc
                   THEN /\ EndPass(call.exc)
                        /\ items' = AfterCall(its1, itemID, taskEdge, outState)
                        /\ failed' = [item |-> itemID, edge |-> taskEdge.id,
                                      curr |-> items[itemID].currState]
                   ELSE /\ items' = AfterCall(its1, itemID, taskEdge, outState)
                        /\ UNCHANGED failed
                        /\ IF walk.exc # NoExc
                           THEN EndPass(walk.exc)
                           ELSE /\ iter' = it
                                /\ UNCHANGED <<siUsed, err>>
                                /\ IF WhileCond(walk.path, walk.idx)
                                   THEN /\ pc' = "while"
                                        /\ path' = walk.path
                                        /\ idx' = walk.idx
                                        /\ UNCHANGED <<itemID, startState, endState>>
                                   ELSE /\ pc' = "for"
                                        /\ itemID' = NoItem
                                        /\ startState' = NoState
                                        /\ endState' = NoState
                                        /\ path' = <<>>
                                        /\ idx' = 0
  /\ UNCHANGED <<graphVars, visited, items0, disc0, retry, op>>

\* ---------------------------------------------------------- specifications
\* TaskGraph.__init__ (lines 124-136)
Init == InitWith(EmptyGraph)

\* the inputs of the callers: the state list of the test (test.py:12), edge
\* lists (the test's chain, and the chain entered through scanEdge) and the
\* states items are created or updated with
AllStates == <<"empty", "add", "print", "done">>

Setups ==
  { <<emptyEdge, addEdgeT, printEdge>>,
    <<scanEdge, addEdgeT, printEdge>> }

ItemInputs ==
  { <<"empty", "done">>, <<"done", "done">>, <<"done", "empty">> }

GraphSetup ==
  \/ addStates(AllStates)
  \/ \E taskEdges \in Setups : addEdges(taskEdges)

RegistryNext ==
  \/ \E id \in ItemIds, in \in ItemInputs : addItem(id, in[1], in[2])
  \/ \E id \in ItemIds : removeItem(id)
  \/ \E id \in ItemIds, in \in ItemInputs : updateItemStates(id, in[1], in[2])

FixNext ==
  \/ fixItems
  \/ ForNext
  \/ LookupFails
  \/ \E outState \in Outs : Invoke(outState, NoCallback)

Next == GraphSetup \/ RegistryNext \/ FixNext

Spec == Init /\ [][Next]_vars

\* the graph operations alone, with every short list as input
GraphNext ==
  \/ \E stateName \in Outs : addState(stateName)
  \/ \E stateNames \in SeqUpTo(Outs, MaxList) : addStates(stateNames)
  \/ \E taskEdge \in EdgeCatalogue : addEdge(taskEdge)
  \/ \E taskEdges \in SeqUpTo(EdgeCatalogue, MaxList) : addEdges(taskEdges)

SpecGraph == Init /\ [][GraphNext]_vars

\* the registry operations alone, on any graph
SpecRegistry == Init /\ [][GraphSetup \/ RegistryNext]_vars

\* handlers that call back into the registry while the pass is running: a
\* handler adds an item, removes another item or updates an item's states
Callbacks(cur) ==
  {[op |-> "addItem", id |-> i, currState |-> "empty", desiredState |-> "done"] : i \in ItemIds}
  \cup {[op |-> "removeItem", id |-> i] : i \in ItemIds \ {cur}}
  \cup {[op |-> "updateItemStates", id |-> i, currState |-> "done", desiredState |-> "done"] :
          i \in ItemIds \ {cur}}

\* the first handler a pass invokes makes one such call
InvokeReentrant ==
  /\ calls = <<>>
  /\ \E outState \in Outs, cb \in Callbacks(itemID) : Invoke(outState, cb)

SpecReentrant == Init /\ [][Next \/ InvokeReentrant]_vars


\* -------------------------------------------------------------- properties
\* the ids of the registered items whose current state is not the desired one
DiscrepantIds == {id \in DOMAIN items : items[id].currState # items[id].desiredState}

\* C6: addEdge on an edge that refers to an undeclared state raises and leaves
\* the declared states, the nodes, the node attributes and the links as they
\* were; addEdge on an edge whose states are all declared returns normally
\* with the edge node, its edgeObj attribute, a link from every start state to
\* it and a link from it to every end state present.
C6_AddEdgeAtomic ==
  [][\A taskEdge \in EdgeCatalogue :
       addEdge(taskEdge) =>
         IF \E s \in Range(taskEdge.startStates \o taskEdge.endStates \o taskEdge.errorEndStates) :
              s \notin states
         THEN /\ err' = "ValueError"
              /\ states' = states /\ graphNodes' = graphNodes
              /\ graphLinks' = graphLinks /\ edgeObj' = edgeObj
         ELSE /\ err' = NoExc
              /\ taskEdge.id \in graphNodes'
              /\ taskEdge.id \in DOMAIN edgeObj' /\ edgeObj'[taskEdge.id] = taskEdge
              /\ \A s \in Range(taskEdge.startStates) : <<s, taskEdge.id>> \in graphLinks'
              /\ \A s \in Range(taskEdge.endStates) : <<taskEdge.id, s>> \in graphLinks']_vars

\* an addEdge call has raised on a graph that already holds an edge and in
\* which a state is still undeclared
C6_Witness ==
  /\ err = "ValueError"
  /\ DOMAIN edgeObj # {}
  /\ StateNames \ states # {}

\* C9: under the registry operations alone the discrepant-id set is exactly
\* the set of ids of registered items whose currState differs from their
\* desiredState (and holds no id twice).
C9_DiscrepantExact ==
  /\ Range(discrepantItems) = DiscrepantIds
  /\ Len(discrepantItems) = Cardinality(Range(discrepantItems))

\* a registry call has just failed while one registered item is discrepant
\* and another is not
C9_Witness ==
  /\ err = "ValueError"
  /\ Cardinality(DOMAIN items) = 2
  /\ Len(discrepantItems) = 1
  /\ states # {}


\* the number of handler invocations of the current pass on item id
CallsOn(id) == Cardinality({n \in 1..Len(calls) : calls[n][1] = id})

\* every edge of the graph has exactly one end state and a runner that
\* always returns it
DeterministicGraph ==
  \A n \in DOMAIN edgeObj :
    /\ Len(edgeObj[n].endStates) = 1
    /\ edgeObj[n].rets = {edgeObj[n].endStates[1]}

\* the graph of the adder test (test.py:12-34)
TestGraph ==
  /\ states = StateNames
  /\ DOMAIN edgeObj = {"emptyEdge", "addEdge", "printEdge"}

\* C1: while an item is being walked, the walk pointer stands on an edge whose
\* preceding path node is the item's current state (after a deviation: the
\* start of a fresh path from the new current state), and the pass does not
\* abort with the lookup error of a walk pointer that left the plan.
C1_DeviationRecovery ==
  /\ pc = "while" =>
       /\ idx >= 1
       /\ PyIndex(path, idx - 1) = items[itemID].currState
       /\ PyIndex(path, Len(path) - 1) = items[itemID].desiredState
  /\ err # "KeyError"

\* C2: in a graph of single-end-state edges with deterministic runners, after
\* a fixItems() call every item that had a shortest path of 2k links from its
\* current to its desired state at the start of the call is at its desired
\* state, and exactly k handlers were invoked on it.
C2_Convergence ==
  (pc = "done" /\ DeterministicGraph) =>
    \A id \in DOMAIN items0 :
      LET sp == ShortestPath(CurGraph, items0[id].currState, items0[id].desiredState)
      IN sp.exc = NoExc =>
           /\ id \in DOMAIN items
           /\ items[id].currState = items0[id].desiredState
           /\ 2 * CallsOn(id) = Len(sp.path) - 1

\* C3: an invocation whose runner returns a value outside the edge's
\* endStates and errorEndStates raises ValueError, ends the call, and leaves
\* every item's currState as it was before the invocation.
C3_ContractEnforcement ==
  [][\A outState \in Outs :
       (/\ Invoke(outState, NoCallback)
        /\ outState \notin Range(edgeObj[PyIndex(path, idx)].endStates)
        /\ outState \notin Range(edgeObj[PyIndex(path, idx)].errorEndStates))
       => /\ err' = "ValueError"
          /\ pc' = "done"
          /\ DOMAIN items' = DOMAIN items
          /\ \A id \in DOMAIN items : items'[id].currState = items[id].currState]_vars

\* a pass has ended with the validation error of an invocation on an item
\* that is still in the state it had before the invocation
C3_Witness ==
  /\ pc = "done" /\ err = "ValueError"
  /\ failed.item \in DOMAIN items
  /\ items[failed.item].currState = failed.curr

\* C4: when a pass has ended after one item had no path or an invocation
\* failed validation, every id of the discrepant set the pass started with
\* has been processed.
C4_FailureIsolation ==
  (pc = "done" /\ err \in {"NetworkXNoPath", "ValueError"}) =>
    disc0 \subseteq Range(visited)

\* C5: a pass processes only ids of the discrepant set it started with, all of
\* them when it returns normally, and a change of the live set by a handler
\* does not make the pass fail.
C5_SnapshotIteration ==
  /\ err # "RuntimeError"
  /\ Range(visited) \subseteq disc0
  /\ (pc = "done" /\ err = NoExc) => Range(visited) = disc0

\* C7: an item whose currState equals its desiredState when fixItems() is
\* called keeps its currState and has no handler invoked on it, throughout the
\* call and after it, whether or not its id is in the discrepant set.
C7_Idempotence ==
  \A id \in DOMAIN items0 :
    items0[id].currState = items0[id].desiredState =>
      /\ id \in DOMAIN items
      /\ items[id].currState = items0[id].currState
      /\ CallsOn(id) = 0

\* a pass in which handlers ran has ended after visiting an item that was
\* already at its desired state (its id was left in the discrepant set by an
\* earlier pass)
C7_Witness ==
  /\ pc = "done"
  /\ Len(calls) > 0
  /\ \E id \in Range(visited) : items0[id].currState = items0[id].desiredState

\* C8: on the test's graph, a fixItems() call whose only discrepant item goes
\* from empty to done invokes emptyEdge, addEdge and printEdge on it, once
\* each and in this order, returns normally, and leaves the item at done with
\* its counter incremented by exactly one.
C8_TestScenario ==
  \A id \in ItemIds :
    (/\ pc = "done" /\ TestGraph
     /\ disc0 = {id}
     /\ items0[id].currState = "empty" /\ items0[id].desiredState = "done")
    => /\ err = NoExc
       /\ calls = << <<id, "emptyEdge">>, <<id, "addEdge">>, <<id, "printEdge">> >>
       /\ items[id].currState = "done"
       /\ items[id].val = items0[id].val + 1

\* the test has run: one item, empty to done, three invocations, counter 1
C8_Witness ==
  /\ pc = "done" /\ TestGraph
  /\ DOMAIN items0 = {"i1"} /\ disc0 = {"i1"}
  /\ items0["i1"] = ItemBase("empty", "done")
  /\ Len(calls) = 3
  /\ items["i1"].val = 1 /\ items["i1"].currState = "done"

\* C10: after an invocation failed validation the call is over with that
\* invocation as its last one, the item is in the discrepant set and in the
\* state it had before the invocation; and the fixItems() call that directly
\* follows starts from that state and its first invocation on the item is of
\* the same edge.
C10_RetryNextPass ==
  /\ failed.item # NoItem =>
       /\ pc = "done" /\ err = "ValueError"
       /\ failed.item \in Range(discrepantItems)
       /\ items[failed.item].currState = failed.curr
       /\ calls[Len(calls)] = <<failed.item, failed.edge>>
  /\ (retry.item # NoItem /\ pc = "done") =>
       /\ items0[retry.item].currState = retry.curr
       /\ \E n \in 1..Len(calls) :
            /\ calls[n] = <<retry.item, retry.edge>>
            /\ \A m \in 1..(n - 1) : calls[m][1] # retry.item

\* the call that directly followed a validation failure has invoked the edge
\* again and brought the item to its desired state
C10_Witness ==
  /\ pc = "done"
  /\ retry.item \in DOMAIN items
  /\ items[retry.item].currState = items[retry.item].desiredState
  /\ CallsOn(retry.item) > 0

\* C11: addItem with a registered id raises and leaves the item store and the
\* discrepant-id set as they were; addItem with a new id stores the item,
\* leaves the other items alone and puts the id in the discrepant-id set
\* exactly when the item's currState differs from its desiredState.
C11_DuplicateRejection ==
  [][\A id \in ItemIds, in \in ItemInputs :
       addItem(id, in[1], in[2]) =>
         IF id \in DOMAIN items
         THEN /\ err' = "ValueError"
              /\ items' = items
              /\ discrepantItems' = discrepantItems
         ELSE /\ err' = NoExc
              /\ DOMAIN items' = DOMAIN items \cup {id}
              /\ items'[id] = ItemBase(in[1], in[2])
              /\ \A k \in DOMAIN items : items'[k] = items[k]
              /\ (id \in Range(discrepantItems')) <=> (in[1] # in[2])
              /\ Range(discrepantItems') \ {id} = Range(discrepantItems)]_vars

\* addItem has just raised on a registry that holds a discrepant and a
\* satisfied item
C11_Witness ==
  /\ op = "addItem" /\ err = "ValueError"
  /\ \E a, b \in DOMAIN items :
       /\ isDiscrepant(items[a]) /\ a \in Range(discrepantItems)
       /\ ~isDiscrepant(items[b])

\* C12: removeItem on an unregistered id raises and changes nothing;
\* removeItem on a registered id takes it out of the item store and of the
\* discrepant-id set, after which getItem, removeItem and updateItemStates on
\* that id raise; and handlers are only ever invoked on registered items.
C12_RemovalCorrect ==
  /\ [][\A id \in ItemIds :
          removeItem(id) =>
            IF id \notin DOMAIN items
            THEN /\ err' = "ValueError"
                 /\ items' = items
                 /\ discrepantItems' = discrepantItems
            ELSE LET R1 == Registry(items', discrepantItems')
                 IN /\ err' = NoExc
                    /\ items' = [k \in DOMAIN items \ {id} |-> items[k]]
                    /\ Range(discrepantItems') = Range(discrepantItems) \ {id}
                    /\ GetItemOp(R1, id).exc = "KeyError"
                    /\ \A res \in RemoveItemOp(R1, id) : res.err = "ValueError"
                    /\ \A in \in ItemInputs :
                         \A res \in UpdateItemStatesOp(R1, id, in[1], in[2]) :
                           res.err = "ValueError"]_vars
  /\ [](\A n \in 1..Len(calls) : calls[n][1] \in DOMAIN items)

\* removeItem has just taken one of two items out of the registry, the other
\* one being discrepant
C12_Witness ==
  /\ op = "removeItem" /\ err = NoExc
  /\ Cardinality(DOMAIN items) = MaxItems - 1
  /\ discrepantItems # <<>>

\* C13: whenever fixItems() is about to invoke the edge its walk pointer
\* stands on (line 272), the item's currState is one of that edge's
\* startStates.
C13_FiresFromStartStates ==
  (pc = "while" /\ PyIndex(path, idx) \in DOMAIN edgeObj) =>
    items[itemID].currState \in Range(edgeObj[PyIndex(path, idx)].startStates)

\* two handlers have run on an item and a third edge is about to be invoked
C13_Witness ==
  /\ pc = "while"
  /\ PyIndex(path, idx) \in DOMAIN edgeObj
  /\ CallsOn(itemID) = 2 /\ idx = 5

\* processing of the n-th item the pass visited is over
ProcessingOver(n) == ~(pc = "while" /\ n = Len(visited))

\* the pass ended while it was processing the n-th visited item, with one of
\* the exceptions excs
EndedWith(n, excs) == pc = "done" /\ n = Len(visited) /\ err \in excs

\* C14: the processing of an item in a pass invokes no more handlers than
\* the graph has edges, and when it is over exactly one of these is the case:
\* the item's currState equals its desiredState; no path existed from its
\* current to its desired state; a handler invocation failed validation.
C14_PassOutcomes ==
  /\ \A id \in DOMAIN items : CallsOn(id) <= Cardinality(DOMAIN edgeObj)
  /\ \A n \in 1..Len(visited) :
       ProcessingOver(n) =>
         LET id == visited[n]
             reached == items[id].currState = items[id].desiredState
             noPath == EndedWith(n, {"NetworkXNoPath", "NodeNotFound"})
             invalid == EndedWith(n, {"ValueError"})
         IN /\ reached \/ noPath \/ invalid
            /\ ~(reached /\ noPath) /\ ~(reached /\ invalid) /\ ~(noPath /\ invalid)

\* the ids that were in the discrepant set at the start of the current pass
\* although their items were at their desired states (left there by an
\* earlier pass)
StaleIds == {id \in disc0 : items0[id].currState = items0[id].desiredState}

\* C15: a fixItems() call removes no id from the discrepant-id set, so an
\* item it has driven to its desired state is still a member afterwards; and
\* a call that starts with such an id in the set has visited it when it ends.
C15_StaleBookkeeping ==
  op = "fixItems" =>
    /\ disc0 \subseteq Range(discrepantItems)
    /\ \A id \in disc0 :
         items[id].currState = items[id].desiredState => id \in Range(discrepantItems)
    /\ pc = "done" => StaleIds \subseteq Range(visited)

\* in path p every edge node is followed by one of the edge's endStates
FollowsEndStates(p) ==
  \A k \in 1..Len(p) :
    p[k] \in DOMAIN edgeObj =>
      /\ k < Len(p)
      /\ p[k + 1] \in Range(edgeObj[p[k]].endStates)

\* C16: in the path fixItems() is walking, and in the path the planner gives
\* for any pair of declared states, the node after an edge node is one of
\* that edge's endStates (never a state that is only an error end state).
C16_NoErrorRouting ==
  /\ pc = "while" => FollowsEndStates(path)
  /\ \A s, t \in states :
       Plan(CurGraph, s, t).exc = NoExc => FollowsEndStates(Plan(CurGraph, s, t).path)

\* a plan to "done" goes through scanEdge and a second edge although "done"
\* is an error end state of scanEdge
C16_Witness ==
  /\ pc = "while"
  /\ path = <<"empty", "scanEdge", "print", "printEdge", "done">>
  /\ "done" \in Range(edgeObj["scanEdge"].errorEndStates)
  /\ "done" \notin Range(edgeObj["scanEdge"].endStates)

\* C17: once an item the pass visited is at its desired state, whether by a
\* planned hop or by a deviation, no handler is invoked on it any more and
\* its processing does not end with an exception.
C17_StopAtTarget ==
  \A n \in 1..Len(visited) :
    LET id == visited[n]
    IN items[id].currState = items[id].desiredState =>
         /\ (pc = "while" /\ n = Len(visited)) => PyIndex(path, idx) \notin DOMAIN edgeObj
         /\ ~(pc = "done" /\ n = Len(visited) /\ err # NoExc)

\* C18: every step of a fixItems() call whose handlers do not call back
\* leaves the declared states, the graph's nodes, links and edge objects, the
\* set of registered ids and every desiredState as they are; it changes the
\* currState of at most the item being walked, which was in the discrepant
\* set when the call started, to a valid output of the edge just invoked.
C18_FixItemsFrame ==
  [][op' = "fixItems" =>
       /\ UNCHANGED <<states, graphNodes, graphLinks, edgeObj>>
       /\ DOMAIN items' = DOMAIN items
       /\ \A id \in DOMAIN items :
            /\ items'[id].desiredState = items[id].desiredState
            /\ items'[id].currState # items[id].currState =>
                 /\ pc = "while" /\ id = itemID
                 /\ id \in disc0
                 /\ PyIndex(path, idx) \in DOMAIN edgeObj
                 /\ items'[id].currState \in validOutputs(edgeObj[PyIndex(path, idx)])
                 /\ calls' = Append(calls, <<id, edgeObj[PyIndex(path, idx)].id>>)]_vars

\* a call has ended after changing the currState of one item while another
\* registered item, not in the discrepant set at the start, is as it was
C18_Witness ==
  /\ op = "fixItems" /\ pc = "done"
  /\ \E a, b \in DOMAIN items :
       /\ items[a].currState # items0[a].currState
       /\ b \notin disc0 /\ items[b] = items0[b]

\* the ids of the items that were discrepant when the current pass started
DiscrepantIds0 == {id \in DOMAIN items0 : items0[id].currState # items0[id].desiredState}

\* C19: at every point of a run of addItem, removeItem, updateItemStates and
\* fixItems calls the discrepant-id set holds only registered ids and holds
\* the id of every registered item whose currState differs from its
\* desiredState; so the set a pass iterates holds every item that is
\* discrepant when the pass starts, a pass that returns has visited them all,
\* and a pass visits only registered items of that set.
C19_BookkeepingBound ==
  /\ Range(discrepantItems) \subseteq DOMAIN items
  /\ DiscrepantIds \subseteq Range(discrepantItems)
  /\ Len(discrepantItems) = Cardinality(Range(discrepantItems))
  /\ op = "fixItems" =>
       /\ DiscrepantIds0 \subseteq disc0
       /\ Range(visited) \subseteq disc0 \cap DOMAIN items
       /\ (pc = "done" /\ err = NoExc) => DiscrepantIds0 \subseteq Range(visited)

\* updateItemStates has just made an item discrepant while the set also
\* holds the id of an item that an earlier pass brought to its desired state
C19_Witness ==
  /\ op = "updateItemStates" /\ err = NoExc
  /\ DiscrepantIds # {}
  /\ Range(discrepantItems) \ DiscrepantIds # {}

\* C20: every edge of the graph refers to declared states only; a value that
\* the current fixItems() call has given to an item's currState is a declared
\* state; and if every item's currState was a declared state when the call
\* started, it is one at every point of the call and after it.
C20_StateClosure ==
  /\ \A n \in DOMAIN edgeObj : ReferencedStates(edgeObj[n]) \subseteq states
  /\ op = "fixItems" =>
       /\ \A id \in DOMAIN items :
            items[id].currState # items0[id].currState => items[id].currState \in states
       /\ (\A id \in DOMAIN items0 : items0[id].currState \in states)
            => \A id \in DOMAIN items : items[id].currState \in states

\* a call that started with every item in a declared state has moved an item
\* and then ended with an exception
C20_Witness ==
  /\ op = "fixItems" /\ pc = "done" /\ err # NoExc
  /\ \A id \in DOMAIN items0 : items0[id].currState \in states
  /\ \E id \in DOMAIN items : items[id].currState # items0[id].currState

====
